---- MODULE Spec2Model ----
(***************************************************************************)
(* include/yarp/defines.h: the preprocessor's macro table of one           *)
(* translation unit, and what processing the header does to it.            *)
(*                                                                         *)
(* The header is kept as its list of directives, line by line, and is      *)
(* interpreted the way a C preprocessor does: a stack of open conditional  *)
(* groups, a #define taking effect only in an active group.  A #define of  *)
(* a macro that is already defined with another replacement list is a      *)
(* redefinition: the compiler diagnoses it and the later definition        *)
(* replaces the earlier one (gcc, clang and MSVC all do).                  *)
(***************************************************************************)
EXTENDS Naturals, Sequences, FiniteSets

\* ------------------------------------------------------------ bounds
MaxIncludes == 2        \* #include "yarp/defines.h" lines in the unit
MaxSystemHeaders == 1   \* system headers read in the unit
MaxUndefs == 1          \* #undef lines of the including file

\* ------------------------------------------------------------ names
GUARD == "YARP_DEFINES_H"
XOPEN == "_XOPEN_SOURCE"
IMPORTED == "YP_IMPORTED_FUNCTION"
EXPORTED == "YP_EXPORTED_FUNCTION"
UNUSED == "YP_ATTRIBUTE_UNUSED"
WIN32 == "_WIN32"

FourSymbols == {XOPEN, IMPORTED, EXPORTED, UNUSED}
Symbols == FourSymbols \cup {GUARD, WIN32}

\* the replacement lists the header writes
XopenValue == "700"
DllImport == "__declspec(dllimport)"
DllExport == "__declspec(dllexport)"
VisibilityDefault == "__attribute__((__visibility__(\"default\")))"
EmptyExpansion == ""
AttrUnused == "__attribute__((unused))"

\* ------------------------------------------------------------ macro table
Undefined == [def |-> FALSE, val |-> ""]
Defined(v) == [def |-> TRUE, val |-> v]

\* ------------------------------------------------------------ the header
Dir(op, sym, val) == [op |-> op, sym |-> sym, val |-> val]

\* the guard testing another name than the one it defines
GuardOpenWrongName ==
    << Dir("ifndef", XOPEN, ""),
       Dir("define", GUARD, EmptyExpansion) >>

\* lines 4-5
GuardOpen ==
    << Dir("ifndef", GUARD, ""),
       Dir("define", GUARD, EmptyExpansion) >>

\* _XOPEN_SOURCE defined without asking whether it already is
XopenBlockUnguarded ==
    << Dir("define", XOPEN, XopenValue) >>

\* _XOPEN_SOURCE requested on the non-Windows branch only
XopenBlockPosixOnly ==
    << Dir("ifdef", WIN32, ""),
       Dir("else", "", ""),
       Dir("define", XOPEN, XopenValue),
       Dir("endif", "", "") >>

\* lines 8-10
XopenBlock ==
    << Dir("ifndef", XOPEN, ""),
       Dir("define", XOPEN, XopenValue),
       Dir("endif", "", "") >>

\* the two branches of YP_IMPORTED_FUNCTION exchanged
ImportedBlockSwapped ==
    << Dir("ifndef", IMPORTED, ""),
       Dir("ifdef", WIN32, ""),
       Dir("define", IMPORTED, VisibilityDefault),
       Dir("else", "", ""),
       Dir("define", IMPORTED, DllImport),
       Dir("endif", "", ""),
       Dir("endif", "", "") >>

\* YP_IMPORTED_FUNCTION choosing its value by the export macro's state
ImportedBlockTestsExported ==
    << Dir("ifndef", IMPORTED, ""),
       Dir("ifdef", EXPORTED, ""),
       Dir("define", IMPORTED, DllImport),
       Dir("else", "", ""),
       Dir("define", IMPORTED, VisibilityDefault),
       Dir("endif", "", ""),
       Dir("endif", "", "") >>

\* lines 12-18
ImportedBlock ==
    << Dir("ifndef", IMPORTED, ""),
       Dir("ifdef", WIN32, ""),
       Dir("define", IMPORTED, DllImport),
       Dir("else", "", ""),
       Dir("define", IMPORTED, VisibilityDefault),
       Dir("endif", "", ""),
       Dir("endif", "", "") >>

\* YP_EXPORTED_FUNCTION written as a copy of the import block's values
ExportedBlockAsImport ==
    << Dir("ifndef", EXPORTED, ""),
       Dir("ifdef", WIN32, ""),
       Dir("define", EXPORTED, DllImport),
       Dir("else", "", ""),
       Dir("define", EXPORTED, VisibilityDefault),
       Dir("endif", "", ""),
       Dir("endif", "", "") >>

\* lines 20-26
ExportedBlock ==
    << Dir("ifndef", EXPORTED, ""),
       Dir("ifdef", WIN32, ""),
       Dir("define", EXPORTED, DllExport),
       Dir("else", "", ""),
       Dir("define", EXPORTED, VisibilityDefault),
       Dir("endif", "", ""),
       Dir("endif", "", "") >>

\* YP_ATTRIBUTE_UNUSED with the #else and its group lost: both lines run
UnusedBlockNoBranch ==
    << Dir("define", UNUSED, EmptyExpansion),
       Dir("define", UNUSED, AttrUnused) >>

\* lines 28-32
UnusedBlock ==
    << Dir("ifdef", WIN32, ""),
       Dir("define", UNUSED, EmptyExpansion),
       Dir("else", "", ""),
       Dir("define", UNUSED, AttrUnused),
       Dir("endif", "", "") >>

\* line 34
GuardClose ==
    << Dir("endif", "", "") >>

Header ==
    GuardOpen \o XopenBlock \o ImportedBlock \o ExportedBlock
              \o UnusedBlock \o GuardClose

\* ------------------------------------------------------------ preprocessing
\* A conditional group: outer = the enclosing group is active,
\* cond = this group's (current) branch was selected.
Active(stack) ==
    IF stack = << >> THEN TRUE
    ELSE stack[Len(stack)].outer /\ stack[Len(stack)].cond

Push(stack, c) == Append(stack, [outer |-> Active(stack), cond |-> c])

Pop(stack) == SubSeq(stack, 1, Len(stack) - 1)

Flip(stack) ==
    [stack EXCEPT ![Len(stack)] = [outer |-> @.outer, cond |-> ~@.cond]]

\* One directive applied to the preprocessor state
\* st = [tab, stack, ndefs, diag].
Directive(st, d) ==
    CASE d.op = "ifndef" ->
            [st EXCEPT !.stack = Push(st.stack, ~st.tab[d.sym].def)]
      [] d.op = "ifdef" ->
            [st EXCEPT !.stack = Push(st.stack, st.tab[d.sym].def)]
      [] d.op = "else" ->
            [st EXCEPT !.stack = Flip(st.stack)]
      [] d.op = "endif" ->
            [st EXCEPT !.stack = Pop(st.stack)]
      [] d.op = "define" ->
            IF Active(st.stack)
            THEN [st EXCEPT
                    !.tab[d.sym] = Defined(d.val),
                    !.ndefs[d.sym] = @ + 1,
                    !.diag = IF st.tab[d.sym].def /\ st.tab[d.sym].val # d.val
                             THEN @ \cup {d.sym} ELSE @]
            ELSE st

RECURSIVE Run(_, _, _)
Run(st, text, i) ==
    IF i > Len(text) THEN st
    ELSE Run(Directive(st, text[i]), text, i + 1)

\* Processing the whole header from the macro table tab.
Process(tab) ==
    Run([tab |-> tab, stack |-> << >>,
         ndefs |-> [s \in Symbols |-> 0], diag |-> {}],
        Header, 1)

\* ------------------------------------------------------------ state
VARIABLES
    macros,     \* the unit's macro table: symbol -> [def, val]
    before,     \* the table as it was when the header was last processed
    ndefs,      \* #define lines executed per symbol by the last processing
    diag,       \* symbols with a redefinition diagnostic so far
    beforeFirst, \* the table when the header was first processed
    afterFirst, \* the table right after the first processing
    firstSys,   \* what the first system header found: _XOPEN_SOURCE (xopen),
                \* the header processed earlier (afterDefines), an #undef
                \* of _XOPEN_SOURCE by the includer earlier (undefd)
    xopenUndefd, \* the includer has #undef'd _XOPEN_SOURCE
    nIncludes, nSys, nUndefs,
    last        \* the directive of the unit processed last

vars == << macros, before, ndefs, diag, beforeFirst, afterFirst, firstSys,
           xopenUndefd, nIncludes, nSys, nUndefs, last >>

\* What the includer or the build may have defined before the header.
CallerValues(s) ==
    CASE s = XOPEN -> {"600", XopenValue}
      [] s = IMPORTED -> {EmptyExpansion, VisibilityDefault}
      [] s = EXPORTED -> {EmptyExpansion, VisibilityDefault}
      [] s = UNUSED -> {EmptyExpansion, AttrUnused}
      [] s = GUARD -> {EmptyExpansion}
      [] s = WIN32 -> {"1"}

Entries(s) == {Undefined} \cup {Defined(v) : v \in CallerValues(s)}

Tables == {t \in [Symbols -> UNION {Entries(s) : s \in Symbols}] :
             \A s \in Symbols : t[s] \in Entries(s)}

Init ==
    /\ macros \in Tables
    /\ before = macros
    /\ ndefs = [s \in Symbols |-> 0]
    /\ diag = {}
    /\ beforeFirst = macros
    /\ afterFirst = macros
    /\ firstSys = [xopen |-> Undefined, afterDefines |-> FALSE, undefd |-> FALSE]
    /\ xopenUndefd = FALSE
    /\ nIncludes = 0
    /\ nSys = 0
    /\ nUndefs = 0
    /\ last = "start"

\* #include "yarp/defines.h"
IncludeDefinesH ==
    /\ nIncludes < MaxIncludes
    /\ LET r == Process(macros) IN
        /\ macros' = r.tab
        /\ ndefs' = r.ndefs
        /\ diag' = diag \cup r.diag
        /\ afterFirst' = IF nIncludes = 0 THEN r.tab ELSE afterFirst
    /\ before' = macros
    /\ beforeFirst' = IF nIncludes = 0 THEN macros ELSE beforeFirst
    /\ nIncludes' = nIncludes + 1
    /\ last' = "defines"
    /\ UNCHANGED << firstSys, xopenUndefd, nSys, nUndefs >>

\* #include <string.h> and the like: the system header reads _XOPEN_SOURCE
IncludeSystemHeader ==
    /\ nSys < MaxSystemHeaders
    /\ firstSys' = IF nSys = 0
                   THEN [xopen |-> macros[XOPEN],
                         afterDefines |-> nIncludes > 0,
                         undefd |-> xopenUndefd]
                   ELSE firstSys
    /\ nSys' = nSys + 1
    /\ last' = "system"
    /\ UNCHANGED << macros, before, ndefs, diag, beforeFirst, afterFirst,
                    xopenUndefd, nIncludes, nUndefs >>

\* #undef s in the including file, after the header was processed
IncluderUndef ==
    /\ nIncludes > 0
    /\ nUndefs < MaxUndefs
    /\ \E s \in FourSymbols \cup {GUARD} :
        /\ macros[s].def
        /\ macros' = [macros EXCEPT ![s] = Undefined]
        /\ xopenUndefd' = (xopenUndefd \/ s = XOPEN)
    /\ nUndefs' = nUndefs + 1
    /\ last' = "undef"
    /\ UNCHANGED << before, ndefs, diag, beforeFirst, afterFirst, firstSys,
                    nIncludes, nSys >>

Next == IncludeDefinesH \/ IncludeSystemHeader \/ IncluderUndef

Spec == Init /\ [][Next]_vars

\* ------------------------------------------------------------ properties
JustProcessed == last = "defines"

\* the results of processing the header from every table of Tables
AllRuns == {[from |-> t, to |-> Process(t)] : t \in Tables}

\* C1: a symbol of the four that is defined before the header is processed
\* has exactly that value after it.
C1_OverrideRespect ==
    JustProcessed =>
        \A s \in FourSymbols : before[s].def => macros[s] = before[s]

\* C2: no #define of the header is executed for a symbol that is already
\* defined with a different value.
C2_NoRedefinition == diag = {}

\* C3 as stated: after the header's one inclusion _XOPEN_SOURCE is 700,
\* predefined or not.
C3_XopenAlways700 ==
    (JustProcessed /\ nIncludes = 1) => macros[XOPEN] = Defined(XopenValue)

\* C3, amended: after the header's one inclusion _XOPEN_SOURCE has the value
\* it was predefined with, if it was; if it was not, it is 700 when the
\* guard YARP_DEFINES_H was not predefined, and stays undefined when it was.
C3_XopenAfterOnce ==
    (JustProcessed /\ nIncludes = 1) =>
        macros[XOPEN] = IF before[XOPEN].def THEN before[XOPEN]
                        ELSE IF before[GUARD].def THEN Undefined
                        ELSE Defined(XopenValue)

C3_Witness ==
    /\ JustProcessed /\ nIncludes = 1
    /\ ~before[GUARD].def
    /\ before[XOPEN] = Defined("600")
    /\ macros[XOPEN] = Defined("600")

\* C4: processing the header twice gives no redefinition conflict and leaves
\* the four symbols as the first processing left them.
C4_Idempotent ==
    (JustProcessed /\ nIncludes = 2 /\ nUndefs = 0) =>
        /\ diag = {}
        /\ \A s \in FourSymbols : macros[s] = afterFirst[s]

\* C5: not Windows, nothing predefined: _XOPEN_SOURCE is 700, the import and
\* export macros are the same default-visibility attribute, and
\* YP_ATTRIBUTE_UNUSED is the unused attribute.
NothingPredefined ==
    \A s \in FourSymbols \cup {GUARD} : ~before[s].def

XopenKept ==
    (IncludeDefinesH /\ macros[XOPEN].def) => macros'[XOPEN] = macros[XOPEN]

\* C7 as stated: with the header processed before any system header,
\* _XOPEN_SOURCE is defined when the first system header is read, and the
\* header never undefines or changes it afterwards.
C7_DefinedAtFirstSystemHeader ==
    /\ []((nSys > 0 /\ firstSys.afterDefines) => firstSys.xopen.def)
    /\ [][XopenKept]_vars

\* C7, amended: with the header processed before any system header, the
\* guard YARP_DEFINES_H not defined at that processing, and no #undef of
\* _XOPEN_SOURCE by the includer in between, _XOPEN_SOURCE is defined when the
\* first system header is read, with the value the header left it with; and
\* the header never undefines or changes a defined _XOPEN_SOURCE.
C7_DefinedUnlessGuardPredefined ==
    /\ []((nSys > 0 /\ firstSys.afterDefines
            /\ ~beforeFirst[GUARD].def /\ ~firstSys.undefd) =>
                (firstSys.xopen.def /\ firstSys.xopen = afterFirst[XOPEN]))
    /\ [][XopenKept]_vars

C7_Witness ==
    /\ nSys > 0 /\ firstSys.afterDefines
    /\ ~beforeFirst[GUARD].def /\ ~beforeFirst[XOPEN].def
    /\ firstSys.xopen = Defined(XopenValue)
    /\ JustProcessed /\ nIncludes = 2
    /\ macros[XOPEN] = firstSys.xopen

\* C8: after the header is processed with the guard not yet defined, all four
\* symbols are defined, and that processing executed at most one #define for
\* each.
C8_AllDefinedOnce ==
    (JustProcessed /\ ~before[GUARD].def) =>
        \A s \in FourSymbols : macros[s].def /\ ndefs[s] <= 1

C8_Witness ==
    /\ JustProcessed /\ ~before[GUARD].def
    /\ before[IMPORTED].def /\ ~before[EXPORTED].def
    /\ ndefs[IMPORTED] = 0 /\ ndefs[EXPORTED] = 1 /\ ndefs[UNUSED] = 1

\* C9: the value the header gives a symbol it defines is the same from any two
\* tables that agree on _WIN32 being defined, whatever else they hold; the
\* value it gives _XOPEN_SOURCE is the same from any two tables at all.
C9_PlatformOnly ==
    JustProcessed =>
        \A r \in AllRuns : \A s \in FourSymbols :
            (ndefs[s] > 0 /\ r.to.ndefs[s] > 0
                /\ (s = XOPEN \/ r.from[WIN32].def = before[WIN32].def))
              => r.to.tab[s] = macros[s]

C9_Witness ==
    /\ JustProcessed
    /\ \A s \in FourSymbols : ndefs[s] > 0
    /\ \E r \in AllRuns :
        /\ r.from[WIN32].def # before[WIN32].def
        /\ r.to.ndefs[IMPORTED] > 0
        /\ r.to.tab[IMPORTED] # macros[IMPORTED]
        /\ r.to.tab[XOPEN] = macros[XOPEN]

\* C10: processed with YARP_DEFINES_H defined, the header changes nothing
\* (a symbol #undef'd since the first inclusion stays undefined); and in
\* every case it undefines nothing, leaves _WIN32 alone, and defines
\* YARP_DEFINES_H.
C10_GuardFrame ==
    JustProcessed =>
        /\ before[GUARD].def => macros = before
        /\ \A s \in Symbols : before[s].def => macros[s].def
        /\ macros[WIN32] = before[WIN32]
        /\ macros[GUARD].def

C10_Witness ==
    /\ JustProcessed /\ nIncludes = 2 /\ nUndefs > 0
    /\ before[GUARD].def
    /\ \E s \in FourSymbols : afterFirst[s].def /\ ~macros[s].def
====
